---- MODULE Spec2Model ----
(***************************************************************************)
(* extract_streams.py: demultiplexer of an AudioTee dual-stream capture.   *)
(* The capture is a flat sequence of packets, each a 13-byte little-endian *)
(* header (stream id: 1 byte, timestamp: 8 bytes, payload size: 4 bytes)   *)
(* followed by the payload.  extract_streams copies the payloads of stream *)
(* 0 to the system output and those of stream 1 to the microphone output.  *)
(*                                                                         *)
(* Files are sequences of bytes.  Output file objects are buffered, as the *)
(* objects returned by open(path, 'wb') are: write() appends to the        *)
(* object's buffer and close() flushes the buffer to the file at the       *)
(* object's offset.  The captures considered here are far smaller than the *)
(* interpreter's buffer, so no flush happens before close().               *)
(***************************************************************************)
EXTENDS Integers, Sequences, FiniteSets, TLC

VARIABLES
    input_file,     \* argument: path of the capture
    system_output,  \* argument: path of the system output, or None
    mic_output,     \* argument: path of the microphone output, or None
    packets,        \* the complete packets the capture was recorded with
    tail,           \* the bytes of an incomplete packet after them
    fs,             \* the file system: path -> [exists, data]
    pc,             \* the statement extract_streams is at
    f,              \* the input file object: [state, pos]
    system_file,    \* the system file object: [state, buf]
    mic_file,       \* the microphone file object: [state, buf]
    header,         \* local: the bytes of the last header read
    stream_id,      \* local: unpacked header field
    timestamp_us,   \* local: unpacked header field
    packet_size,    \* local: unpacked header field
    audio_data,     \* local: the bytes of the last payload read
    packet_count,   \* local: [system, mic]
    stdout,         \* the lines printed by this invocation
    failure,        \* the I/O failure that ended this invocation, or "none"
    routed,         \* history: the packets routed so far, [sink, data] each
    run,            \* which invocation this is
    prev            \* the file system as the previous invocation left it

args   == <<input_file, system_output, mic_output, packets, tail>>
locals == <<header, stream_id, timestamp_us, packet_size, audio_data>>
vars   == <<input_file, system_output, mic_output, packets, tail, fs, pc, f,
            system_file, mic_file, header, stream_id, timestamp_us,
            packet_size, audio_data, packet_count, stdout, failure, routed,
            run, prev>>

---------------------------------------------------------------------------
(* Bounds of the model *)

MaxPackets == 2
MaxSize == 2
MaxRuns == 2

---------------------------------------------------------------------------
(* Bytes and the header layout *)

HeaderSize == 13

None == "None"
Paths == {"capture.bin", "system.pcm", "mic.pcm"}
StreamIds == {0, 1, 2}

Min(a, b) == IF a < b THEN a ELSE b

RECURSIVE LittleEndian(_)
\* The unsigned integer a little-endian byte string stands for.
LittleEndian(bytes) ==
    IF bytes = <<>> THEN 0
    ELSE Head(bytes) + 256 * LittleEndian(Tail(bytes))

RECURSIVE ToLittleEndian(_, _)
\* The w bytes of n, least significant first (what a producer writes).
ToLittleEndian(n, w) ==
    IF w = 0 THEN <<>>
    ELSE <<n % 256>> \o ToLittleEndian(n \div 256, w - 1)

RECURSIVE BigEndian(_)
BigEndian(bytes) ==
    IF bytes = <<>> THEN 0
    ELSE Head(bytes) * 256 ^ (Len(bytes) - 1) + BigEndian(Tail(bytes))

\* The header unpacked as '>BQL': the byte order mistaken.
UnpackBigEndian(h) ==
    [stream_id    |-> h[1],
     timestamp_us |-> 0,
     packet_size  |-> BigEndian(SubSeq(h, 10, 13))]

\* struct.unpack('<BQL', header)
Unpack(h) ==
    [stream_id    |-> h[1],
     timestamp_us |-> LittleEndian(SubSeq(h, 2, 9)),
     packet_size  |-> LittleEndian(SubSeq(h, 10, 13))]

\* The 13 bytes a producer writes for a header.
PackHeader(id, ts, size) ==
    <<id>> \o ToLittleEndian(ts, 8) \o ToLittleEndian(size, 4)

\* One packet on the wire.
PackPacket(p) ==
    PackHeader(p.stream_id, p.timestamp_us, Len(p.audio_data)) \o p.audio_data

RECURSIVE PackAll(_)
PackAll(ps) ==
    IF ps = <<>> THEN <<>> ELSE PackPacket(Head(ps)) \o PackAll(Tail(ps))

---------------------------------------------------------------------------
(* The captures considered *)

\* The i-th packet of a capture: its payload bytes tell the packet and the
\* offset, so that order, loss and duplication show in the outputs.
MkPacket(i, id, size) ==
    [stream_id    |-> id,
     timestamp_us |-> 1000 * i,
     audio_data   |-> [j \in 1..size |-> 16 * i + j]]

\* A payload is empty or MaxSize bytes long.
Sizes == {0, MaxSize}

Shapes == [stream_id : StreamIds, size : Sizes]

Captures ==
    UNION {{[i \in 1..n |-> MkPacket(i, s[i].stream_id, s[i].size)] :
               s \in [1..n -> Shapes]} : n \in 0..MaxPackets}

HugeSize == 256 * 256 * 256

\* What may follow the complete packets: nothing, 1 to 12 bytes of a header,
\* or a header whose payload is cut short.
Tails ==
    LET h == PackHeader(0, 4000, MaxSize + 1)
        g == PackHeader(1, 4000, HugeSize)
    IN  {<<>>, SubSeq(h, 1, 1), SubSeq(h, 1, 12),
         h \o [j \in 1..MaxSize |-> 240 + j], g}

---------------------------------------------------------------------------
(* Files *)

NoFile == [exists |-> FALSE, data |-> <<>>]
File(bytes) == [exists |-> TRUE, data |-> bytes]

Unopened == [state |-> "none", pos |-> 0]
NoSink == [state |-> "none", buf |-> <<>>]

\* open(path, 'ab'): the file is created, or kept as it is.
OpenForAppending(files, path) == [files EXCEPT ![path] = File(@.data)]

\* open(path, 'wb'): the file is created or truncated.
OpenForWriting(files, path) == [files EXCEPT ![path] = File(<<>>)]

\* close() of an output object: the buffer goes to the file at offset 0,
\* where the object was opened.
Flush(files, path, buf) ==
    [files EXCEPT ![path] =
        File(buf \o SubSeq(@.data, Len(buf) + 1, Len(@.data)))]

\* f.read(n): the next n bytes, or as many as are left.
Read(n) ==
    LET data == fs[input_file].data
        got  == Min(n, Len(data) - f.pos)
    IN  SubSeq(data, f.pos + 1, f.pos + got)

---------------------------------------------------------------------------
(* Initial states *)

Init ==
    /\ input_file = "capture.bin"
    /\ system_output \in {None, input_file, "system.pcm"}
    /\ mic_output \in {None, input_file, "system.pcm", "mic.pcm"}
    /\ packets \in Captures
    /\ tail \in Tails
    /\ fs = [p \in Paths |->
                IF p = input_file THEN File(PackAll(packets) \o tail)
                ELSE NoFile]
    /\ pc = "open_system"
    /\ f = Unopened
    /\ system_file = NoSink
    /\ mic_file = NoSink
    /\ header = <<>>
    /\ stream_id = 0
    /\ timestamp_us = 0
    /\ packet_size = 0
    /\ audio_data = <<>>
    /\ packet_count = [system |-> 0, mic |-> 0]
    /\ stdout = <<>>
    /\ failure = "none"
    /\ routed = <<>>
    /\ run = 1
    /\ prev = fs

---------------------------------------------------------------------------
(* extract_streams, statement by statement *)

\* Line 10: system_file = open(system_output, 'wb') if system_output else None
OpenSystem ==
    /\ pc = "open_system"
    /\ IF system_output # None
       THEN /\ fs' = OpenForWriting(fs, system_output)
            /\ system_file' = [state |-> "open", buf |-> <<>>]
       ELSE /\ fs' = fs
            /\ system_file' = NoSink
    /\ pc' = "open_mic"
    /\ UNCHANGED <<args, locals, f, mic_file, packet_count, stdout, failure,
                   routed, run, prev>>

\* Line 10, open() raising: nothing is created, the exception leaves the function.
OpenSystemFail ==
    /\ pc = "open_system"
    /\ system_output # None
    /\ pc' = "error"
    /\ failure' = "open_system"
    /\ UNCHANGED <<args, locals, fs, f, system_file, mic_file, packet_count,
                   stdout, routed, run, prev>>

\* Line 11: mic_file = open(mic_output, 'wb') if mic_output else None
OpenMic ==
    /\ pc = "open_mic"
    /\ IF mic_output # None
       THEN /\ fs' = OpenForWriting(fs, mic_output)
            /\ mic_file' = [state |-> "open", buf |-> <<>>]
       ELSE /\ fs' = fs
            /\ mic_file' = NoSink
    /\ pc' = "open_input"
    /\ UNCHANGED <<args, locals, f, system_file, packet_count, stdout, failure,
                   routed, run, prev>>

\* Line 11, open() raising: system_file stays as line 10 left it.
OpenMicFail ==
    /\ pc = "open_mic"
    /\ mic_output # None
    /\ pc' = "error"
    /\ failure' = "open_mic"
    /\ UNCHANGED <<args, locals, fs, f, system_file, mic_file, packet_count,
                   stdout, routed, run, prev>>

\* Lines 13-14: with open(input_file, 'rb') as f: packet_count = {...}
OpenInput ==
    /\ pc = "open_input"
    /\ fs[input_file].exists
    /\ f' = [state |-> "open", pos |-> 0]
    /\ packet_count' = [system |-> 0, mic |-> 0]
    /\ pc' = "read_header"
    /\ UNCHANGED <<args, locals, fs, system_file, mic_file, stdout, failure,
                   routed, run, prev>>

\* Line 13, open() raising: both output objects stay as they are.
OpenInputFail ==
    /\ pc = "open_input"
    /\ pc' = "error"
    /\ failure' = "open_input"
    /\ UNCHANGED <<args, locals, fs, f, system_file, mic_file, packet_count,
                   stdout, routed, run, prev>>

\* Lines 18-20 with continue for break: a short header starts the loop over.
ReadHeaderContinue ==
    /\ pc = "read_header"
    /\ header' = Read(HeaderSize)
    /\ f' = [f EXCEPT !.pos = @ + Len(header')]
    /\ pc' = IF Len(header') < HeaderSize THEN "read_header" ELSE "read_payload"
    /\ UNCHANGED <<args, fs, system_file, mic_file, stream_id, timestamp_us,
                   packet_size, audio_data, packet_count, stdout, failure,
                   routed, run, prev>>

\* Lines 18-20: header = f.read(13); if len(header) < 13: break
ReadHeader ==
    /\ pc = "read_header"
    /\ header' = Read(HeaderSize)
    /\ f' = [f EXCEPT !.pos = @ + Len(header')]
    /\ pc' = IF Len(header') < HeaderSize THEN "exit_with" ELSE "read_payload"
    /\ UNCHANGED <<args, fs, system_file, mic_file, stream_id, timestamp_us,
                   packet_size, audio_data, packet_count, stdout, failure,
                   routed, run, prev>>

\* Lines 23-28 taking one byte more than the payload from the capture, as
\* if a separator followed each packet.
ReadPayloadAndSeparator ==
    /\ pc = "read_payload"
    /\ stream_id' = Unpack(header).stream_id
    /\ timestamp_us' = Unpack(header).timestamp_us
    /\ packet_size' = Unpack(header).packet_size
    /\ audio_data' = Read(packet_size')
    /\ f' = [f EXCEPT !.pos =
                Min(@ + Len(audio_data') + 1, Len(fs[input_file].data))]
    /\ pc' = IF Len(audio_data') < packet_size' THEN "exit_with" ELSE "route"
    /\ UNCHANGED <<args, fs, system_file, mic_file, header, packet_count,
                   stdout, failure, routed, run, prev>>

\* Lines 23-28 without the check of line 27: a short payload is routed.
ReadPayloadUnchecked ==
    /\ pc = "read_payload"
    /\ stream_id' = Unpack(header).stream_id
    /\ timestamp_us' = Unpack(header).timestamp_us
    /\ packet_size' = Unpack(header).packet_size
    /\ audio_data' = Read(packet_size')
    /\ f' = [f EXCEPT !.pos = @ + Len(audio_data')]
    /\ pc' = "route"
    /\ UNCHANGED <<args, fs, system_file, mic_file, header, packet_count,
                   stdout, failure, routed, run, prev>>

\* Lines 23-28: unpack the header; audio_data = f.read(packet_size);
\* if len(audio_data) < packet_size: break
ReadPayload ==
    /\ pc = "read_payload"
    /\ stream_id' = Unpack(header).stream_id
    /\ timestamp_us' = Unpack(header).timestamp_us
    /\ packet_size' = Unpack(header).packet_size
    /\ audio_data' = Read(packet_size')
    /\ f' = [f EXCEPT !.pos = @ + Len(audio_data')]
    /\ pc' = IF Len(audio_data') < packet_size' THEN "exit_with" ELSE "route"
    /\ UNCHANGED <<args, fs, system_file, mic_file, header, packet_count,
                   stdout, failure, routed, run, prev>>

\* Lines 18 and 26, f.read() raising: the with statement closes f on the way
\* out; the output objects stay as they are.
ReadFail ==
    /\ pc \in {"read_header", "read_payload"}
    /\ f' = [f EXCEPT !.state = "closed"]
    /\ pc' = "error"
    /\ failure' = "read"
    /\ UNCHANGED <<args, locals, fs, system_file, mic_file, packet_count,
                   stdout, routed, run, prev>>

\* Line 31 without its test of the stream: what is not written to the
\* microphone sink goes to the system sink.
SinkForDefault(id) ==
    IF id = 1 /\ mic_file.state # "none" THEN "mic"
    ELSE IF system_file.state # "none" THEN "system"
    ELSE "none"

\* Line 34 without its test of the stream: what is not written to the
\* system sink goes to the microphone sink.
SinkForFallback(id) ==
    IF id = 0 /\ system_file.state # "none" THEN "system"
    ELSE IF mic_file.state # "none" THEN "mic"
    ELSE "none"

\* The sink lines 31-36 select for the packet just read, or "none".
SinkFor(id) ==
    IF id = 0 /\ system_file.state # "none" THEN "system"
    ELSE IF id = 1 /\ mic_file.state # "none" THEN "mic"
    ELSE "none"

\* write() given the header along with the payload.
WriteWithHeader(file, data) == [file EXCEPT !.buf = @ \o header \o data]

\* file.write(data) on an output object
Write(file, data) == [file EXCEPT !.buf = @ \o data]

\* Every packet written is counted as a system packet.
IncrementSystem(count, sink) == [count EXCEPT !["system"] = @ + 1]

\* packet_count[sink] += 1
Increment(count, sink) == [count EXCEPT ![sink] = @ + 1]

\* Lines 31-36 with the payload written to every sink that is open.
RouteToAll ==
    /\ pc = "route"
    /\ LET sink == SinkFor(stream_id) IN
       /\ system_file' = IF sink # "none" /\ system_file.state # "none"
                         THEN Write(system_file, audio_data)
                         ELSE system_file
       /\ mic_file' = IF sink # "none" /\ mic_file.state # "none"
                      THEN Write(mic_file, audio_data)
                      ELSE mic_file
       /\ packet_count' = IF sink = "none" THEN packet_count
                          ELSE Increment(packet_count, sink)
       /\ routed' = Append(routed, [sink |-> sink, data |-> audio_data])
    /\ pc' = "read_header"
    /\ UNCHANGED <<args, locals, fs, f, stdout, failure, run, prev>>

\* Lines 31-36: write the payload to the sink of its stream and count it
Route ==
    /\ pc = "route"
    /\ LET sink == SinkFor(stream_id) IN
       /\ system_file' = IF sink = "system" THEN Write(system_file, audio_data)
                         ELSE system_file
       /\ mic_file' = IF sink = "mic" THEN Write(mic_file, audio_data)
                      ELSE mic_file
       /\ packet_count' = IF sink = "none" THEN packet_count
                          ELSE Increment(packet_count, sink)
       /\ routed' = Append(routed, [sink |-> sink, data |-> audio_data])
    /\ pc' = "read_header"
    /\ UNCHANGED <<args, locals, fs, f, stdout, failure, run, prev>>

\* Lines 32 and 35 with the exception of write() caught and passed over.
WriteFailIgnored ==
    /\ pc = "route"
    /\ SinkFor(stream_id) # "none"
    /\ pc' = "read_header"
    /\ failure' = "write"
    /\ UNCHANGED <<args, locals, fs, f, system_file, mic_file, packet_count,
                   stdout, routed, run, prev>>

\* Lines 32 and 35, write() raising: the with statement closes f on the way
\* out; the output objects stay as they are.
WriteFail ==
    /\ pc = "route"
    /\ SinkFor(stream_id) # "none"
    /\ f' = [f EXCEPT !.state = "closed"]
    /\ pc' = "error"
    /\ failure' = "write"
    /\ UNCHANGED <<args, locals, fs, system_file, mic_file, packet_count,
                   stdout, routed, run, prev>>

\* Line 13, leaving the with block after a break: f is closed.
ExitWith ==
    /\ pc = "exit_with"
    /\ f' = [f EXCEPT !.state = "closed"]
    /\ pc' = "close_system"
    /\ UNCHANGED <<args, locals, fs, system_file, mic_file, packet_count,
                   stdout, failure, routed, run, prev>>

\* Lines 38-40 without line 39: the count is printed, the object not closed.
CloseSystemSkipped ==
    /\ pc = "close_system"
    /\ pc' = IF system_file.state # "none" THEN "report_system"
             ELSE "close_mic"
    /\ UNCHANGED <<args, locals, fs, f, system_file, mic_file, packet_count,
                   stdout, failure, routed, run, prev>>

\* Lines 38-39: if system_file: system_file.close()
CloseSystem ==
    /\ pc = "close_system"
    /\ IF system_file.state # "none"
       THEN /\ fs' = Flush(fs, system_output, system_file.buf)
            /\ system_file' = [system_file EXCEPT !.state = "closed"]
            /\ pc' = "report_system"
       ELSE /\ UNCHANGED <<fs, system_file>>
            /\ pc' = "close_mic"
    /\ UNCHANGED <<args, locals, f, mic_file, packet_count, stdout, failure,
                   routed, run, prev>>

\* Line 40: print the system packet count
ReportSystem ==
    /\ pc = "report_system"
    /\ stdout' = Append(stdout, [sink  |-> "system",
                                 count |-> packet_count.system,
                                 path  |-> system_output])
    /\ pc' = "close_mic"
    /\ UNCHANGED <<args, locals, fs, f, system_file, mic_file, packet_count,
                   failure, routed, run, prev>>

\* Lines 42-43: if mic_file: mic_file.close()
CloseMic ==
    /\ pc = "close_mic"
    /\ IF mic_file.state # "none"
       THEN /\ fs' = Flush(fs, mic_output, mic_file.buf)
            /\ mic_file' = [mic_file EXCEPT !.state = "closed"]
            /\ pc' = "report_mic"
       ELSE /\ UNCHANGED <<fs, mic_file>>
            /\ pc' = "done"
    /\ UNCHANGED <<args, locals, f, system_file, packet_count, stdout,
                   failure, routed, run, prev>>

\* Line 44: print the microphone packet count
ReportMic ==
    /\ pc = "report_mic"
    /\ stdout' = Append(stdout, [sink  |-> "mic",
                                 count |-> packet_count.mic,
                                 path  |-> mic_output])
    /\ pc' = "done"
    /\ UNCHANGED <<args, locals, fs, f, system_file, mic_file, packet_count,
                   failure, routed, run, prev>>

\* Lines 51-55: the script is run again with the same arguments, on the
\* files as the invocation before left them.
Rerun ==
    /\ pc = "done"
    /\ run < MaxRuns
    /\ run' = run + 1
    /\ prev' = fs
    /\ pc' = "open_system"
    /\ f' = Unopened
    /\ system_file' = NoSink
    /\ mic_file' = NoSink
    /\ header' = <<>>
    /\ stream_id' = 0
    /\ timestamp_us' = 0
    /\ packet_size' = 0
    /\ audio_data' = <<>>
    /\ packet_count' = [system |-> 0, mic |-> 0]
    /\ stdout' = <<>>
    /\ routed' = <<>>
    /\ UNCHANGED <<args, fs, failure>>

Next ==
    \/ OpenSystem
    \/ OpenSystemFail
    \/ OpenMic
    \/ OpenMicFail
    \/ OpenInput
    \/ OpenInputFail
    \/ ReadHeader
    \/ ReadPayload
    \/ ReadFail
    \/ Route
    \/ WriteFail
    \/ ExitWith
    \/ CloseSystem
    \/ ReportSystem
    \/ CloseMic
    \/ ReportMic
    \/ Rerun

Spec == Init /\ [][Next]_vars

\* The statements of extract_streams completing without an I/O failure.
Progress ==
    \/ OpenSystem \/ OpenMic \/ OpenInput
    \/ ReadHeader \/ ReadPayload \/ Route
    \/ ExitWith \/ CloseSystem \/ ReportSystem \/ CloseMic \/ ReportMic

\* The program is single-threaded and every call blocks until it returns or
\* raises: a statement that has been reached completes unless it fails.
\* Whether a call fails, and whether the script is run once more, is not the
\* program's choice.
FairSpec == Spec /\ WF_vars(Progress)

---------------------------------------------------------------------------
(* What the claims speak of *)

Terminal == pc \in {"done", "error"}

\* The statements after the demux loop has been left by a break.
AfterLoop == pc \in {"exit_with", "close_system", "report_system",
                     "close_mic", "report_mic", "done"}

RECURSIVE Payloads(_, _)
\* The payloads of the packets of stream id, concatenated in file order.
Payloads(ps, id) ==
    IF ps = <<>> THEN <<>>
    ELSE (IF Head(ps).stream_id = id THEN Head(ps).audio_data ELSE <<>>)
             \o Payloads(Tail(ps), id)

\* The number of packets of stream id.
Matching(ps, id) == Cardinality({i \in 1..Len(ps) : ps[i].stream_id = id})

RECURSIVE TotalPayload(_)
\* The payload bytes of all the packets.
TotalPayload(ps) ==
    IF ps = <<>> THEN 0 ELSE Len(Head(ps).audio_data) + TotalPayload(Tail(ps))

\* The three paths name three files.
DistinctPaths ==
    /\ system_output # None
    /\ mic_output # None
    /\ Cardinality({input_file, system_output, mic_output}) = 3

\* An output path names the capture itself.
Aliased == input_file \in {system_output, mic_output}

---------------------------------------------------------------------------
(* C1 *)

\* C1 (round trip): when the capture is made of complete packets of streams
\* 0 and 1 only, in any interleaving, and both output paths are given and
\* name files of their own, a finished run leaves in the system output
\* exactly the payloads of the stream 0 packets, in file order, and in the
\* microphone output exactly those of the stream 1 packets; no header byte
\* is in either.
RoundTrip ==
    ( /\ pc = "done"
      /\ DistinctPaths
      /\ tail = <<>>
      /\ \A i \in 1..Len(packets) : packets[i].stream_id \in {0, 1} )
    => /\ fs[system_output] = File(Payloads(packets, 0))
       /\ fs[mic_output] = File(Payloads(packets, 1))

\* Reached: a finished run on a capture that interleaves both streams, the
\* microphone packet first, each with a payload.
RoundTripWitness ==
    /\ pc = "done"
    /\ DistinctPaths
    /\ tail = <<>>
    /\ Len(packets) = MaxPackets
    /\ packets[1].stream_id = 1
    /\ packets[2].stream_id = 0
    /\ \A i \in 1..Len(packets) : Len(packets[i].audio_data) > 0
    /\ fs[system_output].data # <<>>
    /\ fs[mic_output].data # <<>>

---------------------------------------------------------------------------
(* C2 *)

\* The complete packets extract_streams finds in the capture: all of them,
\* unless an output path names the capture, which line 10 or 11 has then
\* emptied before line 13 opens it.
Found == IF Aliased THEN <<>> ELSE packets

\* What the complete packets alone give each sink: the bytes written to it
\* and the number of packets counted for it.
ExpectedSystem == IF system_output # None THEN Payloads(Found, 0) ELSE <<>>
ExpectedMic == IF mic_output # None THEN Payloads(Found, 1) ELSE <<>>
ExpectedCount ==
    [system |-> IF system_output # None THEN Matching(Found, 0) ELSE 0,
     mic    |-> IF mic_output # None THEN Matching(Found, 1) ELSE 0]

\* C2 (truncation tolerance): whatever incomplete packet follows the complete
\* ones (1 to 12 bytes of a header, or a header with less payload than it
\* declares, however large the declared size), the run raises no error of
\* its own, and the bytes written to each sink, the packet counts and the
\* output files are those the complete packets alone determine: nothing of
\* the incomplete packet reaches a sink.
TruncationTolerance ==
    /\ pc = "error" => failure # "none"
    /\ AfterLoop =>
          /\ system_file.buf = ExpectedSystem
          /\ mic_file.buf = ExpectedMic
          /\ packet_count = ExpectedCount
    /\ (pc = "done" /\ system_output # mic_output) =>
          /\ system_output # None => fs[system_output] = File(ExpectedSystem)
          /\ mic_output # None => fs[mic_output] = File(ExpectedMic)

\* Reached: a finished run on a capture that ends with a whole header of
\* stream 0 and part of its payload, after a stream 0 packet that was written.
TruncationToleranceWitness ==
    /\ pc = "done"
    /\ Len(tail) > HeaderSize
    /\ ~Aliased
    /\ system_output # None
    /\ system_file.buf # <<>>
    /\ Len(header) = HeaderSize
    /\ 0 < Len(audio_data)
    /\ Len(audio_data) < packet_size

---------------------------------------------------------------------------
(* C3 *)

\* C3 (guaranteed release): when an invocation has ended, normally or by an
\* I/O failure, none of its file objects (the input, the system sink, the
\* microphone sink) is still open.
AllReleased ==
    Terminal => /\ f.state # "open"
                /\ system_file.state # "open"
                /\ mic_file.state # "open"

---------------------------------------------------------------------------
(* C4 *)

RECURSIVE DroppedBytes(_)
\* The payload bytes of the routed packets that went to no sink.
DroppedBytes(rs) ==
    IF rs = <<>> THEN 0
    ELSE (IF Head(rs).sink = "none" THEN Len(Head(rs).data) ELSE 0)
             + DroppedBytes(Tail(rs))

\* The payload bytes of the packets, as a set (each occurs once in a capture).
PayloadBytes(ps) ==
    UNION {{ps[i].audio_data[j] : j \in 1..Len(ps[i].audio_data)} :
              i \in 1..Len(ps)}

\* C4 (byte-count conservation): at the end of an error-free run, the bytes
\* written to the system sink plus those written to the microphone sink plus
\* the payload bytes dropped add up to the payload bytes of the complete
\* packets found in the capture; every byte written is a payload byte, and
\* none is written twice or to both sinks.
ByteConservation ==
    pc = "done" =>
        LET written == system_file.buf \o mic_file.buf IN
        /\ Len(written) + DroppedBytes(routed) = TotalPayload(Found)
        /\ {written[i] : i \in 1..Len(written)} \subseteq PayloadBytes(Found)
        /\ Cardinality({written[i] : i \in 1..Len(written)}) = Len(written)

\* Reached: a finished run that wrote payload bytes and dropped others.
ByteConservationWitness ==
    /\ pc = "done"
    /\ Len(system_file.buf \o mic_file.buf) > 0
    /\ DroppedBytes(routed) > 0

---------------------------------------------------------------------------
(* C5 *)

\* The number of payloads appended so far to a sink.
Appended(sink) ==
    Cardinality({i \in 1..Len(routed) : routed[i].sink = sink})

\* The lines a finished run has printed: one for each sink opened, with the
\* number of complete packets of its stream.
ExpectedReport ==
    (IF system_output # None
     THEN <<[sink |-> "system", count |-> Matching(Found, 0),
             path |-> system_output]>>
     ELSE <<>>)
    \o
    (IF mic_output # None
     THEN <<[sink |-> "mic", count |-> Matching(Found, 1),
             path |-> mic_output]>>
     ELSE <<>>)

\* C5 (packet counts): both counters are 0 until a packet is routed and never
\* decrease within an invocation; at every moment each counter is the number
\* of payloads appended so far to its sink; and a finished run has reported,
\* for each sink opened and for no other, the number of complete packets of
\* its stream in the capture (0: system, 1: microphone).
PacketCounts ==
    /\ [](/\ packet_count.system = Appended("system")
          /\ packet_count.mic = Appended("mic")
          /\ routed = <<>> => packet_count = [system |-> 0, mic |-> 0]
          /\ pc = "done" => stdout = ExpectedReport)
    /\ [][run' = run => /\ packet_count'.system >= packet_count.system
                        /\ packet_count'.mic >= packet_count.mic]_vars

\* Reached: a finished run that counted a packet for each sink and reported
\* both counts.
PacketCountsWitness ==
    /\ pc = "done"
    /\ packet_count.system > 0
    /\ packet_count.mic > 0
    /\ Len(stdout) = 2

---------------------------------------------------------------------------
(* C6 *)

\* The sinks a line has been printed for.
Reported == {stdout[i].sink : i \in 1..Len(stdout)}

\* C6 (selective extraction): for a stream whose output path is omitted no
\* file object is ever opened, no byte is written, its counter stays 0 and
\* no count is printed, and no file exists but the capture and the outputs
\* asked for.  The output asked for, when it is a file of its own, ends as
\* the payloads of its stream and is reported with their number, the same
\* whether the other path is omitted or given.
SelectiveExtraction ==
    /\ system_output = None =>
          /\ system_file = NoSink
          /\ packet_count.system = 0
          /\ "system" \notin Reported
    /\ mic_output = None =>
          /\ mic_file = NoSink
          /\ packet_count.mic = 0
          /\ "mic" \notin Reported
    /\ \A p \in Paths :
          fs[p].exists => p \in {input_file, system_output, mic_output}
    /\ (pc = "done" /\ ~Aliased /\ system_output # mic_output) =>
          /\ system_output # None =>
                /\ fs[system_output] = File(Payloads(packets, 0))
                /\ stdout[1] = [sink |-> "system",
                                count |-> Matching(packets, 0),
                                path |-> system_output]
          /\ mic_output # None =>
                /\ fs[mic_output] = File(Payloads(packets, 1))
                /\ stdout[Len(stdout)] = [sink |-> "mic",
                                          count |-> Matching(packets, 1),
                                          path |-> mic_output]

\* Reached: a finished run without a system output, on a capture with a
\* payload for each stream, that wrote the microphone output.
SelectiveExtractionWitness ==
    /\ pc = "done"
    /\ system_output = None
    /\ mic_output = "mic.pcm"
    /\ Payloads(packets, 0) # <<>>
    /\ Payloads(packets, 1) # <<>>
    /\ fs[mic_output].data = Payloads(packets, 1)
    /\ ~fs["system.pcm"].exists

---------------------------------------------------------------------------
(* C7 *)

\* The packet just read has no sink: its stream is neither 0 nor 1, or the
\* output of its stream was not asked for.
Unroutable ==
    \/ stream_id \notin {0, 1}
    \/ stream_id = 0 /\ system_output = None
    \/ stream_id = 1 /\ mic_output = None

\* C7 (silent drop): a complete packet is read whole, the cursor moving by
\* 13 for its header and by packet_size for its payload; routing a packet
\* that has no sink changes neither sink, neither counter, no file and not
\* the cursor, raises nothing and goes on to the next header; and each
\* packet routed, a dropped one before it or not, is the next complete
\* packet of the capture, so that the sinks end with the payloads of their
\* streams.
SilentDrop ==
    /\ [](/\ pc = "route" =>
                /\ Len(routed) < Len(Found)
                /\ stream_id = Found[Len(routed) + 1].stream_id
                /\ audio_data = Found[Len(routed) + 1].audio_data
                /\ Len(audio_data) = packet_size
          /\ AfterLoop => /\ system_file.buf = ExpectedSystem
                          /\ mic_file.buf = ExpectedMic)
    /\ [][/\ (pc = "read_header" /\ pc' = "read_payload") =>
                f'.pos = f.pos + HeaderSize
          /\ (pc = "read_payload" /\ pc' = "route") =>
                f'.pos = f.pos + packet_size'
          /\ (pc = "route" /\ Unroutable) =>
                /\ pc' = "read_header"
                /\ UNCHANGED <<f, fs, system_file, mic_file, packet_count,
                               stdout, failure>>]_vars

\* Reached: a packet with a payload was dropped and the packet after it was
\* written to a sink.
SilentDropWitness ==
    /\ Len(routed) = 2
    /\ routed[1].sink = "none"
    /\ routed[1].data # <<>>
    /\ routed[2].sink # "none"
    /\ routed[2].data # <<>>
    /\ pc = "done"

---------------------------------------------------------------------------
(* C8 *)

\* C8 (fatal I/O failure): the step at which an I/O failure occurs ends the
\* invocation in the error state and leaves the files, the bytes written to
\* the sinks, the counters and the output printed as they were; the error
\* state is entered by a failure only, nothing has been printed when it is
\* entered, and nothing happens after it: no packet is read or routed, no
\* count is printed, nothing is tried again.
FatalFailure ==
    /\ [](pc = "error" => failure # "none" /\ stdout = <<>>)
    /\ [][/\ failure' # failure =>
                /\ failure = "none"
                /\ pc' = "error"
                /\ UNCHANGED <<fs, system_file, mic_file, packet_count,
                               routed, stdout>>
          /\ pc = "error" => FALSE]_vars

\* Reached: a write failed after a payload had been written to a sink.
FatalFailureWitness ==
    /\ pc = "error"
    /\ failure = "write"
    /\ system_file.buf \o mic_file.buf # <<>>
    /\ f.state = "closed"

---------------------------------------------------------------------------
(* C9 *)

\* C9 (input never modified): throughout an invocation and when it has
\* ended, the capture is what it was when the invocation began, whatever the
\* output paths are, one that names the capture included.
InputUntouched == fs[input_file] = prev[input_file]

---------------------------------------------------------------------------
(* C10 *)

\* The output paths given.
Requested == {system_output, mic_output} \ {None}

\* C10 (idempotence): a second run with the same arguments ends with every
\* output file as the first run left it; each run creates or empties each
\* output asked for when it opens it, and every output asked for exists at
\* the end of a run, empty when no packet went to it.
Idempotence ==
    /\ (pc = "done" /\ run > 1) => \A p \in Requested : fs[p] = prev[p]
    /\ (pc = "open_mic" /\ system_output # None) =>
          fs[system_output] = File(<<>>)
    /\ (pc = "open_input" /\ mic_output # None) =>
          fs[mic_output] = File(<<>>)
    /\ pc = "done" => \A p \in Requested : fs[p].exists
    /\ (pc = "done" /\ system_output # None /\ system_output # mic_output) =>
          fs[system_output].data = system_file.buf
    /\ (pc = "done" /\ mic_output # None /\ system_output # mic_output) =>
          fs[mic_output].data = mic_file.buf

\* Reached: the end of a second run that left one output with payloads and
\* the other one empty, both as after the first run.
IdempotenceWitness ==
    /\ pc = "done"
    /\ run = 2
    /\ DistinctPaths
    /\ fs[system_output].data # <<>>
    /\ fs[mic_output] = File(<<>>)
    /\ prev[system_output] = fs[system_output]

---------------------------------------------------------------------------
(* C11 *)

\* C11 (termination): every invocation, on any capture (empty, with empty
\* payloads, ending inside a header or a payload), ends: it reaches done
\* unless an I/O failure occurs, and the error state is entered by a failure
\* only.  The cursor never moves back within an invocation, a header read
\* that does not leave the loop moves it by 13 bytes, and so it stands at
\* least 13 bytes further for every iteration completed.
Termination ==
    /\ (pc = "open_system") ~> (pc = "done" \/ failure # "none")
    /\ [](pc = "error" => failure # "none")
    /\ [](f.pos >= HeaderSize * Len(routed))
    /\ [][/\ run' = run => f'.pos >= f.pos
          /\ (pc = "read_header" /\ pc' = "read_payload") =>
                f'.pos >= f.pos + HeaderSize
          /\ (pc = "route" /\ pc' = "read_header") => f'.pos = f.pos]_vars

\* Reached: a run without failure that ended after completing two
\* iterations, one on an empty payload, on a capture cut inside a payload.
TerminationWitness ==
    /\ pc = "done"
    /\ failure = "none"
    /\ Len(routed) = 2
    /\ routed[1].data = <<>>
    /\ Len(tail) > HeaderSize
    /\ ~Aliased

---------------------------------------------------------------------------
(* C12 *)

RECURSIVE Framed(_)
\* The bytes the routed packets take in the capture: 13 + packet_size each.
Framed(rs) ==
    IF rs = <<>> THEN 0
    ELSE HeaderSize + Len(Head(rs).data) + Framed(Tail(rs))

\* C12 (framing invariant): at the top of every loop iteration the cursor is
\* the sum of 13 + packet_size over the packets fully read so far, written
\* or dropped, empty or not; the packets read are the first complete packets
\* of the capture, and the cursor is where the next one starts in the file,
\* or the end of the file.
FramingInvariant ==
    pc = "read_header" =>
        /\ f.pos = Framed(routed)
        /\ Len(routed) <= Len(Found)
        /\ f.pos = Len(PackAll(SubSeq(Found, 1, Len(routed))))
        /\ f.pos <= Len(fs[input_file].data)
        /\ \A i \in 1..Len(routed) :
              routed[i].data = Found[i].audio_data

\* Reached: the top of the third iteration, after a dropped packet with a
\* payload and a written packet with none.
FramingInvariantWitness ==
    /\ pc = "read_header"
    /\ Len(routed) = 2
    /\ routed[1].sink = "none"
    /\ routed[1].data # <<>>
    /\ routed[2].sink # "none"
    /\ routed[2].data = <<>>
    /\ f.pos = 2 * HeaderSize + MaxSize

---------------------------------------------------------------------------
(* C13 *)

\* C13 (close before report), as claimed: once a packet count has been
\* printed, the input and every sink that was opened are closed.
CloseBeforeReport ==
    stdout # <<>> => /\ f.state = "closed"
                     /\ system_file.state # "open"
                     /\ mic_file.state # "open"

\* C13, amended: the input is closed before any count is printed, and each
\* sink is closed, its bytes in its file, before its own count is printed;
\* the system sink is closed before the microphone count is printed too.
\* (The microphone sink is still open when the system count is printed.)
CloseBeforeOwnReport ==
    /\ stdout # <<>> => f.state = "closed"
    /\ (pc = "report_system" \/ "system" \in Reported) =>
          /\ system_file.state = "closed"
          /\ fs[system_output].exists
          /\ system_output # mic_output =>
                fs[system_output].data = system_file.buf
    /\ (pc = "report_mic" \/ "mic" \in Reported) =>
          /\ mic_file.state = "closed"
          /\ system_file.state # "open"
          /\ SubSeq(fs[mic_output].data, 1, Len(mic_file.buf)) = mic_file.buf

\* Reached: the system count has been printed, the system output holds its
\* payloads, and the microphone sink, with payloads written to it, is open.
CloseBeforeOwnReportWitness ==
    /\ pc = "close_mic"
    /\ "system" \in Reported
    /\ system_file.buf # <<>>
    /\ fs[system_output].data = system_file.buf
    /\ mic_file.state = "open"
    /\ mic_file.buf # <<>>

---------------------------------------------------------------------------
(* C14 *)

\* C14 (open order): no output object is opened before the input object,
\* and an invocation that fails to open the input has opened no output and
\* has left every file as it was when the invocation began: no output was
\* created or truncated.
OpenOrder ==
    /\ (system_file.state # "none" \/ mic_file.state # "none") =>
          f.state # "none"
    /\ failure = "open_input" =>
          /\ fs = prev
          /\ system_file.state = "none"
          /\ mic_file.state = "none"

---------------------------------------------------------------------------
(* C15 *)

\* The phase of the invocation a statement belongs to.
PhaseOf(p) ==
    CASE p \in {"open_system", "open_mic", "open_input"} -> "Start"
      [] p = "read_header" -> "ReadingHeader"
      [] p = "read_payload" -> "ReadingPayload"
      [] p = "route" -> "Routing"
      [] p \in {"exit_with", "close_system", "report_system", "close_mic",
                "report_mic"} -> "Close"
      [] p \in {"done", "error"} -> "End"

\* The phases that may follow a phase within an invocation.  An I/O failure
\* leads from Start, a read or Routing straight to End (the error state).
PhasesAfter(ph) ==
    CASE ph = "Start" -> {"Start", "ReadingHeader", "End"}
      [] ph = "ReadingHeader" -> {"ReadingPayload", "Close", "End"}
      [] ph = "ReadingPayload" -> {"Routing", "Close", "End"}
      [] ph = "Routing" -> {"ReadingHeader", "End"}
      [] ph = "Close" -> {"Close", "End"}
      [] ph = "End" -> {}

\* C15 (state-machine ordering): within an invocation the phases follow each
\* other as Start, then Reading header, Reading payload, Routing repeated,
\* then Close, then End, the error state being entered from Start, a read or
\* Routing only and by a failure; Close is left for done only.  Bytes are
\* appended to a sink, and a counter moves, only in Routing, when the whole
\* 13-byte header and the whole payload it declares have been read; the
\* bytes appended are that payload; no step writes to both sinks or moves
\* both counters; nothing is appended once the loop has been left.
StateMachineOrder ==
    /\ [](pc = "route" => /\ Len(header) = HeaderSize
                          /\ Unpack(header).stream_id = stream_id
                          /\ Unpack(header).packet_size = packet_size
                          /\ Len(audio_data) = packet_size)
    /\ [][run' = run =>
            /\ pc' # pc => PhaseOf(pc') \in PhasesAfter(PhaseOf(pc))
            /\ (PhaseOf(pc) = "Close" /\ PhaseOf(pc') = "End") => pc' = "done"
            /\ pc' = "error" => failure' # "none"
            /\ (system_file.buf' # system_file.buf
                  \/ mic_file.buf' # mic_file.buf
                  \/ packet_count' # packet_count) =>
                  /\ pc = "route"
                  /\ \/ /\ system_file.buf' = system_file.buf \o audio_data
                        /\ packet_count' =
                             [packet_count EXCEPT !.system = @ + 1]
                        /\ mic_file' = mic_file
                     \/ /\ mic_file.buf' = mic_file.buf \o audio_data
                        /\ packet_count' = [packet_count EXCEPT !.mic = @ + 1]
                        /\ system_file' = system_file]_vars

\* Reached: a finished run that went twice through the loop and wrote a
\* payload to each sink.
StateMachineOrderWitness ==
    /\ pc = "done"
    /\ Len(routed) = 2
    /\ system_file.buf # <<>>
    /\ mic_file.buf # <<>>
    /\ system_output # mic_output
    /\ Len(stdout) = 2

====
